---- MODULE Spec2Model ----
(***************************************************************************)
(* The threaded round engine of the zombie game (GameDBThreaded) over its  *)
(* store (DatabaseManager): one round takes a snapshot of the store, runs  *)
(* one worker task per living agent on a thread pool, and then merges the  *)
(* workers' buffers and results back into the store.                       *)
(*                                                                         *)
(* Numbers the source keeps as floats are kept in tenths: a multiplier of  *)
(* 0.6 is 6, a probability of 0.2 is 2, the pickup/attack range 1.5 is     *)
(* compared on squared distances (d <= 1.5 iff 4*d*d <= 9).                *)
(***************************************************************************)
EXTENDS Integers, Sequences, FiniteSets, TLC

\* ------------------------------------------------------------ bounds
\* grid_size of the game (constructor argument)
GridSize == 3
\* max_rounds of run_game
MaxRounds == 2
\* num_threads of the constructor: max_workers of the pool
NumThreads == 2
\* how many worker tasks may raise during one game
MaxFaults == 1
\* the number of states of the generator of `random`: random() is s / RngMod
RngMod == 4

\* ------------------------------------------------------------ program constants
HumanHealth == 100
HumanAttack == 20
ZombieHealth == 80
ZombieAttack == 15

\* three agents (num_humans + num_zombies) and the two items of spawn_items
AgentIds == 1..3
ItemIds == 1..2
NoRole == "None"
Roles == {NoRole, "Doctor", "Hunter", "Speed Zombie", "Tank Zombie"}

VARIABLES
    agents,          \* table agents: agent_id -> row
    items,           \* table items: item_id -> row
    combat_log,      \* table combat_log, in insertion order
    session,         \* the row of game_sessions: round_num, status
    round_num,       \* self.round_num
    pc,              \* where the main thread is in run_game / run_round
    game_state,      \* the round's snapshot: humans, zombies, items (lists)
    task,            \* agent_id -> state of its future
    results,         \* the values the finished futures hold
    updated_agents,  \* dict updated_agents, as the set of its values
    combat_buffer,   \* self.combat_buffer
    item_pickups,    \* self.item_pickups
    pick_idx,        \* position of the pickup loop of run_round in item_pickups
    defeated,        \* how often the merge of this round marked each agent dead
    faults,          \* worker tasks that raised so far
    rng,             \* state of the generator of `random`
    round_seed       \* the state of the generator when the round began

vars == <<agents, items, combat_log, session, round_num, pc, game_state,
          task, results, updated_agents, combat_buffer, item_pickups, pick_idx,
          defeated, faults, rng, round_seed>>

\* ------------------------------------------------------------ helpers
Range(s) == {s[i] : i \in DOMAIN s}

Min(a, b) == IF a < b THEN a ELSE b

Max(a, b) == IF a > b THEN a ELSE b

\* dict.get(key, default) on a role_data record
Get(rd, key, default) == IF key \in DOMAIN rd THEN rd[key] ELSE default

\* variant of Clamp without the lower bound: min(grid_size - 1, v)
ClampAbove(v) == Min(GridSize - 1, v)

\* max(0, min(grid_size - 1, v))
Clamp(v) == Max(0, Min(GridSize - 1, v))

\* the sequences that list every element of the set S exactly once
Perms(S) == {s \in [1..Cardinality(S) -> S] : \A e \in S : \E i \in DOMAIN s : s[i] = e}

\* ------------------------------------------------------------ random
\* `random` is a generator with a state s: a call yields s / RngMod and moves on
RngNext(s) == (s + 1) % RngMod

RngNextN(s, n) == IF n = 0 THEN s ELSE IF n = 1 THEN RngNext(s) ELSE RngNext(RngNext(s))

\* the raw draws the next two calls of `random` yield in state s
DrawsFrom(s) == <<s, RngNext(s)>>

\* random.random() < p, p in tenths, for the raw draw r
RandomBelow(r, p) == r * 10 < p * RngMod

\* random.randint(lo, hi) for the raw draw r: lo for the least, hi for the greatest
RandInt(r, lo, hi) == lo + ((hi - lo) * r) \div (RngMod - 1)

\* ------------------------------------------------------------ geometry
\* calculate_distance, squared
Dist2(x1, y1, x2, y2) == (x1 - x2) * (x1 - x2) + (y1 - y2) * (y1 - y2)

calculate_distance2(a, t) == Dist2(a.x, a.y, t.x, t.y)

\* variant of InRange for a reach of distance <= 1
InRangeOrthogonal(d2) == d2 <= 1

\* distance <= 1.5
InRange(d2) == 4 * d2 <= 9

\* min(targets, key=distance): the first element of the list at the least distance
find_nearest(agent, targets) ==
    LET d(i) == calculate_distance2(agent, targets[i])
        best == CHOOSE i \in DOMAIN targets :
                    /\ \A j \in DOMAIN targets : d(i) <= d(j)
                    /\ \A j \in DOMAIN targets : j < i => d(j) > d(i)
    IN targets[best]

\* variant of Sign that points away from the target
SignAway(t, a) == IF t > a THEN -1 ELSE IF t < a THEN 1 ELSE 0

\* 1 if t > a else -1 if t < a else 0
Sign(t, a) == IF t > a THEN 1 ELSE IF t < a THEN -1 ELSE 0

\* one step of a move: both coordinates, clamped to the grid
StepToward(u, dx, dy) == [u EXCEPT !.x = Clamp(u.x + dx), !.y = Clamp(u.y + dy)]

\* for _ in range(n): one step each
RECURSIVE Steps(_, _, _, _)
Steps(u, dx, dy, n) == IF n = 0 THEN u ELSE Steps(StepToward(u, dx, dy), dx, dy, n - 1)

\* ------------------------------------------------------------ combat
\* the entry a missed attack leaves in combat_buffer (None)
NoneCombat == [attacker_id |-> 0, target_id |-> 0, damage |-> 0, was_critical |-> FALSE]

\* variant of calculate_attack in which the miss roll is made for every attacker
calculate_attack_any_miss(attacker, target, draws) ==
    LET miss == RandomBelow(draws[1], 2)
        base == RandInt(draws[2], (attacker.attack_power * 5) \div 10, attacker.attack_power)
        m0 == Get(attacker.role_data, "attack_multiplier", 10)
    IN IF miss
       THEN [combat |-> NoneCombat, ndraws |-> 1]
       ELSE [combat |-> [attacker_id |-> attacker.agent_id,
                         target_id |-> target.agent_id,
                         damage |-> (base * m0) \div 10,
                         was_critical |-> FALSE],
             ndraws |-> 2]

\* variant of calculate_attack that leaves the role's multiplier out of the damage
calculate_attack_flat(attacker, target, draws) ==
    LET zombie == attacker.agent_type = "Zombie"
        k == IF zombie THEN 1 ELSE 0
        miss == zombie /\ RandomBelow(draws[1], 2)
        base == RandInt(draws[k + 1], (attacker.attack_power * 5) \div 10, attacker.attack_power)
        hunter == attacker.role_name = "Hunter"
        crit == hunter /\ RandomBelow(draws[k + 2], 3)
    IN IF miss
       THEN [combat |-> NoneCombat, ndraws |-> 1]
       ELSE [combat |-> [attacker_id |-> attacker.agent_id,
                         target_id |-> target.agent_id,
                         damage |-> base,
                         was_critical |-> crit],
             ndraws |-> k + 1 + (IF hunter THEN 1 ELSE 0)]

\* calculate_attack: the combat result and the number of draws it consumed
calculate_attack(attacker, target, draws) ==
    LET zombie == attacker.agent_type = "Zombie"
        k == IF zombie THEN 1 ELSE 0
        miss == zombie /\ RandomBelow(draws[1], 2)
        base == RandInt(draws[k + 1], (attacker.attack_power * 5) \div 10, attacker.attack_power)
        hunter == attacker.role_name = "Hunter"
        crit == hunter /\ RandomBelow(draws[k + 2], 3)
        m0 == Get(attacker.role_data, "attack_multiplier", 10)
        m == IF crit THEN (m0 * 15) \div 10 ELSE m0
    IN IF miss
       THEN [combat |-> NoneCombat, ndraws |-> 1]
       ELSE [combat |-> [attacker_id |-> attacker.agent_id,
                         target_id |-> target.agent_id,
                         damage |-> (base * m) \div 10,
                         was_critical |-> crit],
             ndraws |-> k + 1 + (IF hunter THEN 1 ELSE 0)]

\* assign_role_to_human, on the worker's copy
assign_role_to_human(human, item) ==
    IF item.item_type = "MedKit"
    THEN [human EXCEPT !.role_name = "Doctor",
                       !.role_data = [heal_charges |-> 3, heal_amount |-> 5]]
    ELSE IF item.item_type = "Sword"
    THEN [human EXCEPT !.role_name = "Hunter",
                       !.attack_power = (human.base_attack_power * 15) \div 10,
                       !.role_data = [attack_multiplier |-> 20, critical_chance |-> 3]]
    ELSE human

\* variant of DoctorHeal that adds the heal amount without the cap at max_health
DoctorHealUncapped(human) ==
    LET heal_charges == Get(human.role_data, "heal_charges", 3)
        heal_amount == (human.max_health * 5) \div 10
    IN IF /\ human.role_name = "Doctor"
          /\ heal_charges > 0
          /\ human.health * 10 < human.max_health * 6
       THEN [human EXCEPT !.health = human.health + heal_amount,
                          !.role_data = ("heal_charges" :> (heal_charges - 1)) @@ human.role_data]
       ELSE human

\* the Doctor's heal at the start of process_human_turn
DoctorHeal(human) ==
    LET heal_charges == Get(human.role_data, "heal_charges", 3)
        heal_amount == (human.max_health * 5) \div 10
    IN IF /\ human.role_name = "Doctor"
          /\ heal_charges > 0
          /\ human.health * 10 < human.max_health * 6
       THEN [human EXCEPT !.health = Min(human.health + heal_amount, human.max_health),
                          !.role_data = ("heal_charges" :> (heal_charges - 1)) @@ human.role_data]
       ELSE human

\* variant of process_human_turn that looks for items whether or not the human has
\* a role
process_human_turn_any_role(human, gs, draws) ==
    LET h == DoctorHeal(human)
        nearest_item == find_nearest(h, gs.items)
        pick == /\ gs.items # <<>>
                /\ InRange(calculate_distance2(h, nearest_item))
        nearest_zombie == find_nearest(h, gs.zombies)
        attack == calculate_attack(h, nearest_zombie, draws)
    IN IF pick
       THEN [update |-> assign_role_to_human(h, nearest_item),
             combat |-> <<>>,
             pickup |-> <<<<nearest_item.item_id, h.agent_id>>>>,
             ndraws |-> 0]
       ELSE IF gs.zombies = <<>>
       THEN [update |-> h, combat |-> <<>>, pickup |-> <<>>, ndraws |-> 0]
       ELSE IF InRange(calculate_distance2(h, nearest_zombie))
       THEN [update |-> h, combat |-> <<attack.combat>>, pickup |-> <<>>,
             ndraws |-> attack.ndraws]
       ELSE [update |-> StepToward(h, Sign(nearest_zombie.x, h.x), Sign(nearest_zombie.y, h.y)),
             combat |-> <<>>, pickup |-> <<>>, ndraws |-> 0]

\* variant of process_human_turn that looks for a zombie in range before it looks
\* for an item
process_human_turn_attack_first(human, gs, draws) ==
    LET h == DoctorHeal(human)
        nearest_item == find_nearest(h, gs.items)
        pick == /\ h.role_name = NoRole
                /\ gs.items # <<>>
                /\ InRange(calculate_distance2(h, nearest_item))
        nearest_zombie == find_nearest(h, gs.zombies)
        attack == calculate_attack(h, nearest_zombie, draws)
    IN IF gs.zombies # <<>> /\ InRange(calculate_distance2(h, nearest_zombie))
       THEN [update |-> h, combat |-> <<attack.combat>>, pickup |-> <<>>,
             ndraws |-> attack.ndraws]
       ELSE IF pick
       THEN [update |-> assign_role_to_human(h, nearest_item),
             combat |-> <<>>,
             pickup |-> <<<<nearest_item.item_id, h.agent_id>>>>,
             ndraws |-> 0]
       ELSE IF gs.zombies = <<>>
       THEN [update |-> h, combat |-> <<>>, pickup |-> <<>>, ndraws |-> 0]
       ELSE [update |-> StepToward(h, Sign(nearest_zombie.x, h.x), Sign(nearest_zombie.y, h.y)),
             combat |-> <<>>, pickup |-> <<>>, ndraws |-> 0]

\* process_human_turn: the returned copy, what it appended to the two buffers,
\* and the number of draws it consumed
process_human_turn(human, gs, draws) ==
    LET h == DoctorHeal(human)
        nearest_item == find_nearest(h, gs.items)
        pick == /\ h.role_name = NoRole
                /\ gs.items # <<>>
                /\ InRange(calculate_distance2(h, nearest_item))
        nearest_zombie == find_nearest(h, gs.zombies)
        attack == calculate_attack(h, nearest_zombie, draws)
    IN IF pick
       THEN [update |-> assign_role_to_human(h, nearest_item),
             combat |-> <<>>,
             pickup |-> <<<<nearest_item.item_id, h.agent_id>>>>,
             ndraws |-> 0]
       ELSE IF gs.zombies = <<>>
       THEN [update |-> h, combat |-> <<>>, pickup |-> <<>>, ndraws |-> 0]
       ELSE IF InRange(calculate_distance2(h, nearest_zombie))
       THEN [update |-> h, combat |-> <<attack.combat>>, pickup |-> <<>>,
             ndraws |-> attack.ndraws]
       ELSE [update |-> StepToward(h, Sign(nearest_zombie.x, h.x), Sign(nearest_zombie.y, h.y)),
             combat |-> <<>>, pickup |-> <<>>, ndraws |-> 0]

\* process_zombie_turn, likewise
process_zombie_turn(zombie, gs, draws) ==
    LET nearest_human == find_nearest(zombie, gs.humans)
        attack == calculate_attack(zombie, nearest_human, draws)
        movement_range == Get(zombie.role_data, "movement_range", 10)
        dx == Sign(nearest_human.x, zombie.x)
        dy == Sign(nearest_human.y, zombie.y)
    IN IF gs.humans = <<>>
       THEN [update |-> zombie, combat |-> <<>>, pickup |-> <<>>, ndraws |-> 0]
       ELSE IF InRange(calculate_distance2(zombie, nearest_human))
       THEN [update |-> zombie, combat |-> <<attack.combat>>, pickup |-> <<>>,
             ndraws |-> attack.ndraws]
       ELSE IF movement_range >= 10
       THEN [update |-> Steps(zombie, dx, dy, movement_range \div 10),
             combat |-> <<>>, pickup |-> <<>>, ndraws |-> 0]
       ELSE [update |-> IF RandomBelow(draws[1], movement_range)
                        THEN StepToward(zombie, dx, dy) ELSE zombie,
             combat |-> <<>>, pickup |-> <<>>, ndraws |-> 1]

\* ------------------------------------------------------------ the store
\* variant of get_alive_agents without the filter is_alive = TRUE
get_agents_of_type(agent_type) ==
    {agents[a] : a \in {b \in AgentIds : agents[b].agent_type = agent_type}}

\* get_alive_agents(game_id, agent_type): the rows, in no particular order
get_alive_agents(agent_type) ==
    {agents[a] : a \in {b \in AgentIds : agents[b].is_alive /\ agents[b].agent_type = agent_type}}

\* variant of get_available_items without the filter picked_up = FALSE
get_all_items == {items[i] : i \in ItemIds}

\* get_available_items(game_id)
get_available_items == {items[i] : i \in {j \in ItemIds : ~items[j].picked_up}}

\* variant of is_game_over that waits for both factions to be gone
is_game_over_both == get_alive_agents("Human") = {} /\ get_alive_agents("Zombie") = {}

\* is_game_over
is_game_over == get_alive_agents("Human") = {} \/ get_alive_agents("Zombie") = {}

\* variant of batch_update_row for an UPDATE that does not set role_data
batch_update_row_no_role_data(row, u) ==
    [row EXCEPT !.health = u.health, !.is_alive = u.is_alive, !.x = u.x, !.y = u.y,
                !.role_name = u.role_name]

\* batch_update_agents: the columns the UPDATE sets, for the agent's row
batch_update_row(row, u) ==
    [row EXCEPT !.health = u.health, !.is_alive = u.is_alive, !.x = u.x, !.y = u.y,
                !.role_name = u.role_name, !.role_data = u.role_data]

\* variant of pick_up_item that marks the item and leaves its owner unset
pick_up_item_no_owner(row, agent_id) == [row EXCEPT !.picked_up = TRUE]

\* pick_up_item(item_id, agent_id)
pick_up_item(row, agent_id) ==
    [row EXCEPT !.picked_up = TRUE, !.picked_by_agent_id = agent_id]

\* log_combat: the row inserted into combat_log
log_combat(rnd, combat) ==
    [round_num |-> rnd, attacker_id |-> combat.attacker_id, target_id |-> combat.target_id,
     damage |-> combat.damage, was_critical |-> combat.was_critical]

\* ------------------------------------------------------------ the game in progress
NoData == [k \in {} |-> 0]

\* a human as spawn_agents creates it, at the health it has kept so far
Human(i, x, y, health) ==
    [agent_id |-> i, agent_type |-> "Human", health |-> health, max_health |-> HumanHealth,
     attack_power |-> HumanAttack, base_attack_power |-> HumanAttack, is_alive |-> TRUE,
     x |-> x, y |-> y, role_name |-> NoRole, role_data |-> NoData]

ZombieRoleData(role) ==
    IF role = "Speed Zombie" THEN [movement_range |-> 20, attack_multiplier |-> 6]
    ELSE IF role = "Tank Zombie" THEN [movement_range |-> 5, attack_multiplier |-> 25]
    ELSE NoData

\* a zombie as spawn_agents creates it, with the role it drew, at the health it has kept
Zombie(i, x, y, health, role) ==
    [agent_id |-> i, agent_type |-> "Zombie", health |-> health, max_health |-> ZombieHealth,
     attack_power |-> ZombieAttack, base_attack_power |-> ZombieAttack, is_alive |-> TRUE,
     x |-> x, y |-> y, role_name |-> role, role_data |-> ZombieRoleData(role)]

\* an item as spawn_items creates it
Item(i, kind, x, y) ==
    [item_id |-> i, item_type |-> kind, x |-> x, y |-> y,
     picked_up |-> FALSE, picked_by_agent_id |-> 0]

\* The games the model starts from: three living agents and the two items, nobody
\* with a picked-up role yet, some agents already hurt by earlier hits.  Humans stand
\* in the left half of the grid and zombies in the right half, as spawn_agents puts
\* them.  The rounds and the rows of combat_log are counted from this state on.
Layouts ==
    { \* one hurt human beside a Tank Zombie and a plain zombie, the items out of reach
      [agents |-> <<Human(1, 0, 0, 26), Zombie(2, 1, 0, 80, "Tank Zombie"),
                    Zombie(3, 1, 1, 10, NoRole)>>,
       items |-> <<Item(1, "MedKit", 2, 2), Item(2, "Sword", 2, 2)>>],
      \* two humans beside one hurt zombie, the items out of reach
      [agents |-> <<Human(1, 0, 0, 100), Human(2, 0, 1, 15), Zombie(3, 1, 1, 25, NoRole)>>,
       items |-> <<Item(1, "MedKit", 2, 2), Item(2, "Sword", 2, 2)>>],
      \* two humans in reach of the MedKit, a Speed Zombie two columns away
      [agents |-> <<Human(1, 0, 0, 100), Human(2, 0, 1, 55),
                    Zombie(3, 2, 1, 80, "Speed Zombie")>>,
       items |-> <<Item(1, "MedKit", 0, 1), Item(2, "Sword", 2, 2)>>],
      \* a human in reach of the Sword and of a Tank Zombie, a Speed Zombie further away
      [agents |-> <<Human(1, 0, 0, 100), Zombie(2, 1, 1, 30, "Tank Zombie"),
                    Zombie(3, 2, 1, 80, "Speed Zombie")>>,
       items |-> <<Item(1, "MedKit", 2, 2), Item(2, "Sword", 0, 1)>>],
      \* a fresh game: everybody at full health and out of reach of each other
      [agents |-> <<Human(1, 0, 1, 100), Zombie(2, 2, 0, 80, "Tank Zombie"),
                    Zombie(3, 2, 2, 80, NoRole)>>,
       items |-> <<Item(1, "MedKit", 1, 1), Item(2, "Sword", 1, 1)>>],
      \* a Speed Zombie two columns and one row away from a human in the middle row
      [agents |-> <<Human(1, 0, 1, 100), Zombie(2, 2, 2, 80, "Speed Zombie"),
                    Zombie(3, 2, 0, 80, NoRole)>>,
       items |-> <<Item(1, "MedKit", 2, 1), Item(2, "Sword", 2, 1)>>],
      \* late in a game: a human and a zombie side by side, both close to death, the
      \* second zombie defeated in an earlier round
      [agents |-> <<Human(1, 0, 0, 7), Zombie(2, 1, 0, 10, NoRole),
                    [Zombie(3, 2, 2, 0, NoRole) EXCEPT !.is_alive = FALSE]>>,
       items |-> <<Item(1, "MedKit", 2, 2), Item(2, "Sword", 2, 2)>>] }

NoTasks == [a \in AgentIds |-> "none"]

NoGameState == [humans |-> <<>>, zombies |-> <<>>, items |-> <<>>]

Init ==
    /\ \E l \in Layouts :
          /\ agents = [a \in AgentIds |-> l.agents[a]]
          /\ items = [i \in ItemIds |-> l.items[i]]
    /\ combat_log = <<>>
    /\ session = [round_num |-> 0, status |-> "active"]
    /\ round_num = 0
    /\ pc = "loop"
    /\ game_state = NoGameState
    /\ task = NoTasks
    /\ results = {}
    /\ updated_agents = {}
    /\ combat_buffer = <<>>
    /\ item_pickups = <<>>
    /\ pick_idx = 1
    /\ defeated = [a \in AgentIds |-> 0]
    /\ faults = 0
    /\ rng \in 0..(RngMod - 1)
    /\ round_seed = rng

\* ------------------------------------------------------------ run_round
\* variant of BeginRound for a loop of run_game without the test round_num < max_rounds
BeginRoundNoCap ==
    /\ pc = "loop"
    /\ ~is_game_over
    /\ round_num' = round_num + 1
    /\ combat_buffer' = <<>>
    /\ item_pickups' = <<>>
    /\ \E humans \in Perms(get_alive_agents("Human")),
          zombies \in Perms(get_alive_agents("Zombie")),
          its \in Perms(get_available_items) :
          game_state' = [humans |-> humans, zombies |-> zombies, items |-> its]
    /\ task' = [a \in AgentIds |-> IF agents[a].is_alive THEN "pending" ELSE "none"]
    /\ results' = {}
    /\ updated_agents' = {}
    /\ pick_idx' = 1
    /\ defeated' = [a \in AgentIds |-> 0]
    /\ round_seed' = rng
    /\ pc' = "workers"
    /\ UNCHANGED <<agents, items, combat_log, session, faults, rng>>

\* the head of run_round: the counter, the buffers, the snapshot, the submitted tasks
\* variant of BeginRound for a run_round that does not clear the two buffers
BeginRoundKeepBuffers ==
    /\ pc = "loop"
    /\ ~is_game_over
    /\ round_num < MaxRounds
    /\ round_num' = round_num + 1
    /\ \E humans \in Perms(get_alive_agents("Human")),
          zombies \in Perms(get_alive_agents("Zombie")),
          its \in Perms(get_available_items) :
          game_state' = [humans |-> humans, zombies |-> zombies, items |-> its]
    /\ task' = [a \in AgentIds |-> IF agents[a].is_alive THEN "pending" ELSE "none"]
    /\ results' = {}
    /\ updated_agents' = {}
    /\ pick_idx' = 1
    /\ defeated' = [a \in AgentIds |-> 0]
    /\ round_seed' = rng
    /\ pc' = "workers"
    /\ UNCHANGED <<agents, items, combat_log, session, combat_buffer, item_pickups, faults,
                   rng>>

BeginRound ==
    /\ pc = "loop"
    /\ ~is_game_over
    /\ round_num < MaxRounds
    /\ round_num' = round_num + 1
    /\ combat_buffer' = <<>>
    /\ item_pickups' = <<>>
    /\ \E humans \in Perms(get_alive_agents("Human")),
          zombies \in Perms(get_alive_agents("Zombie")),
          its \in Perms(get_available_items) :
          game_state' = [humans |-> humans, zombies |-> zombies, items |-> its]
    /\ task' = [a \in AgentIds |-> IF agents[a].is_alive THEN "pending" ELSE "none"]
    /\ results' = {}
    /\ updated_agents' = {}
    /\ pick_idx' = 1
    /\ defeated' = [a \in AgentIds |-> 0]
    /\ round_seed' = rng
    /\ pc' = "workers"
    /\ UNCHANGED <<agents, items, combat_log, session, faults, rng>>

\* the order in which run_round submits the tasks: the humans, then the zombies
Submission ==
    [i \in 1..Len(game_state.humans) |-> game_state.humans[i].agent_id]
    \o [i \in 1..Len(game_state.zombies) |-> game_state.zombies[i].agent_id]

\* the pool runs a submitted task as soon as one of its num_threads threads is free:
\* the running tasks are the first num_threads unfinished ones in submission order
Running(a) ==
    /\ task[a] = "pending"
    /\ \E i \in DOMAIN Submission :
          /\ Submission[i] = a
          /\ Cardinality({j \in 1..(i - 1) : task[Submission[j]] = "pending"}) < NumThreads

\* the row of agent a in the snapshot the tasks were submitted with
Submitted(a) == CHOOSE r \in Range(game_state.humans) \cup Range(game_state.zombies) : r.agent_id = a

process_turn(a, draws) ==
    IF Submitted(a).agent_type = "Human"
    THEN process_human_turn(Submitted(a), game_state, draws)
    ELSE process_zombie_turn(Submitted(a), game_state, draws)

\* variant of FinishTask in which the turn writes the pickup to the store itself, as
\* the turn of the sequential engine does
FinishTaskInPlace(a) ==
    /\ pc = "workers"
    /\ Running(a)
    /\ LET res == process_turn(a, DrawsFrom(rng))
       IN /\ results' = results \cup {res.update}
          /\ combat_buffer' = combat_buffer \o res.combat
          /\ item_pickups' = item_pickups \o res.pickup
          /\ items' = IF res.pickup = <<>> THEN items
                      ELSE [items EXCEPT ![res.pickup[1][1]] = pick_up_item(@, a)]
          /\ rng' = RngNextN(rng, res.ndraws)
    /\ task' = [task EXCEPT ![a] = "done"]
    /\ UNCHANGED <<agents, combat_log, session, round_num, pc, game_state,
                   updated_agents, pick_idx, defeated, faults, round_seed>>

\* a task runs process_human_turn / process_zombie_turn and returns
FinishTask(a) ==
    /\ pc = "workers"
    /\ Running(a)
    /\ LET res == process_turn(a, DrawsFrom(rng))
       IN /\ results' = results \cup {res.update}
          /\ combat_buffer' = combat_buffer \o res.combat
          /\ item_pickups' = item_pickups \o res.pickup
          /\ rng' = RngNextN(rng, res.ndraws)
    /\ task' = [task EXCEPT ![a] = "done"]
    /\ UNCHANGED <<agents, items, combat_log, session, round_num, pc, game_state,
                   updated_agents, pick_idx, defeated, faults, round_seed>>

\* variant of FailTask in which the task raises after it has appended to the buffers
FailTaskAfterAppend(a) ==
    /\ pc = "workers"
    /\ Running(a)
    /\ faults < MaxFaults
    /\ faults' = faults + 1
    /\ LET res == process_turn(a, DrawsFrom(rng))
       IN /\ combat_buffer' = combat_buffer \o res.combat
          /\ item_pickups' = item_pickups \o res.pickup
          /\ rng' = RngNextN(rng, res.ndraws)
    /\ task' = [task EXCEPT ![a] = "failed"]
    /\ UNCHANGED <<agents, items, combat_log, session, round_num, pc, game_state, results,
                   updated_agents, pick_idx, defeated, round_seed>>

\* a task raises before it appends or returns anything
FailTask(a) ==
    /\ pc = "workers"
    /\ Running(a)
    /\ faults < MaxFaults
    /\ faults' = faults + 1
    /\ task' = [task EXCEPT ![a] = "failed"]
    /\ UNCHANGED <<agents, items, combat_log, session, round_num, pc, game_state, results,
                   updated_agents, combat_buffer, item_pickups, pick_idx, defeated, rng,
                   round_seed>>

\* variant of AllFinished that waits for the human futures only
HumansFinished ==
    \A a \in AgentIds : agents[a].agent_type = "Human" => task[a] \in {"none", "done", "failed"}

\* the pool's with-block and the two as_completed loops are left
AllFinished == \A a \in AgentIds : task[a] \in {"none", "done", "failed"}

\* updated_agents after the two as_completed loops
Collect ==
    /\ pc = "workers"
    /\ AllFinished
    /\ updated_agents' = results
    /\ pc' = "combat"
    /\ UNCHANGED <<agents, items, combat_log, session, round_num, game_state, task,
                   results, combat_buffer, item_pickups, pick_idx, defeated, faults, rng,
                   round_seed>>

\* variant of ApplyOne that leaves the health of a defeated target below 0
ApplyOneNoFloor(st, combat) ==
    IF combat = NoneCombat THEN st
    ELSE LET present == \E r \in st.dict : r.agent_id = combat.target_id
             old == CHOOSE r \in st.dict : r.agent_id = combat.target_id
             h == old.health - combat.damage
             new == IF h <= 0 THEN [old EXCEPT !.health = h, !.is_alive = FALSE]
                    ELSE [old EXCEPT !.health = h]
         IN [dict |-> IF present THEN (st.dict \ {old}) \cup {new} ELSE st.dict,
             marks |-> IF present /\ h <= 0
                       THEN [st.marks EXCEPT ![combat.target_id] = @ + 1] ELSE st.marks,
             log |-> Append(st.log, log_combat(round_num, combat))]

\* variant of ApplyOne that drops the attack of an attacker the merge has already
\* marked dead
ApplyOneAttackerAlive(st, combat) ==
    IF combat = NoneCombat THEN st
    ELSE IF \E r \in st.dict : r.agent_id = combat.attacker_id /\ ~r.is_alive THEN st
    ELSE LET present == \E r \in st.dict : r.agent_id = combat.target_id
             old == CHOOSE r \in st.dict : r.agent_id = combat.target_id
             h == old.health - combat.damage
             new == IF h <= 0 THEN [old EXCEPT !.health = 0, !.is_alive = FALSE]
                    ELSE [old EXCEPT !.health = h]
         IN [dict |-> IF present THEN (st.dict \ {old}) \cup {new} ELSE st.dict,
             marks |-> IF present /\ h <= 0
                       THEN [st.marks EXCEPT ![combat.target_id] = @ + 1] ELSE st.marks,
             log |-> Append(st.log, log_combat(round_num, combat))]

\* one iteration of the loop of apply_combat_results
ApplyOne(st, combat) ==
    IF combat = NoneCombat THEN st
    ELSE LET present == \E r \in st.dict : r.agent_id = combat.target_id
             old == CHOOSE r \in st.dict : r.agent_id = combat.target_id
             h == old.health - combat.damage
             new == IF h <= 0 THEN [old EXCEPT !.health = 0, !.is_alive = FALSE]
                    ELSE [old EXCEPT !.health = h]
         IN [dict |-> IF present THEN (st.dict \ {old}) \cup {new} ELSE st.dict,
             marks |-> IF present /\ h <= 0
                       THEN [st.marks EXCEPT ![combat.target_id] = @ + 1] ELSE st.marks,
             log |-> Append(st.log, log_combat(round_num, combat))]

RECURSIVE ApplyFrom(_, _, _)
ApplyFrom(buf, i, st) ==
    IF i > Len(buf) THEN st ELSE ApplyFrom(buf, i + 1, ApplyOne(st, buf[i]))

\* apply_combat_results(updated_agents)
apply_combat_results(buf, dict) ==
    ApplyFrom(buf, 1, [dict |-> dict, marks |-> [a \in AgentIds |-> 0], log |-> <<>>])

ApplyCombatResults ==
    /\ pc = "combat"
    /\ LET st == apply_combat_results(combat_buffer, updated_agents)
       IN /\ updated_agents' = st.dict
          /\ defeated' = st.marks
          /\ combat_log' = combat_log \o st.log
    /\ pc' = "pickups"
    /\ UNCHANGED <<agents, items, session, round_num, game_state, task, results,
                   combat_buffer, item_pickups, pick_idx, faults, rng, round_seed>>

\* one iteration of the pickup loop of run_round
PickUpItem ==
    /\ pc = "pickups"
    /\ pick_idx <= Len(item_pickups)
    /\ LET item_id == item_pickups[pick_idx][1]
           agent_id == item_pickups[pick_idx][2]
       IN items' = [items EXCEPT ![item_id] = pick_up_item(@, agent_id)]
    /\ pick_idx' = pick_idx + 1
    /\ UNCHANGED <<agents, combat_log, session, round_num, pc, game_state, task, results,
                   updated_agents, combat_buffer, item_pickups, defeated, faults, rng,
                   round_seed>>

\* batch_update_agents(updates) and update_game_round
batch_update_agents(tab, dict) ==
    [a \in AgentIds |-> IF \E u \in dict : u.agent_id = a
                        THEN batch_update_row(tab[a], CHOOSE u \in dict : u.agent_id = a)
                        ELSE tab[a]]

\* variant of SaveAgents for a run_round without its last call, update_game_round
SaveAgentsNoRound ==
    /\ pc = "pickups"
    /\ pick_idx > Len(item_pickups)
    /\ agents' = batch_update_agents(agents, updated_agents)
    /\ pc' = "merged"
    /\ UNCHANGED <<items, combat_log, session, round_num, game_state, task, results,
                   updated_agents, combat_buffer, item_pickups, pick_idx, defeated, faults,
                   rng, round_seed>>

SaveAgents ==
    /\ pc = "pickups"
    /\ pick_idx > Len(item_pickups)
    /\ agents' = batch_update_agents(agents, updated_agents)
    /\ session' = [session EXCEPT !.round_num = round_num]
    /\ pc' = "merged"
    /\ UNCHANGED <<items, combat_log, round_num, game_state, task, results, updated_agents,
                   combat_buffer, item_pickups, pick_idx, defeated, faults, rng,
                   round_seed>>

\* run_round returns: its locals are gone, the two buffers stay until the next round
ReturnFromRound ==
    /\ pc = "merged"
    /\ game_state' = NoGameState
    /\ task' = NoTasks
    /\ results' = {}
    /\ updated_agents' = {}
    /\ pick_idx' = 1
    /\ defeated' = [a \in AgentIds |-> 0]
    /\ pc' = "loop"
    /\ UNCHANGED <<agents, items, combat_log, session, round_num, combat_buffer,
                   item_pickups, faults, rng, round_seed>>

\* ------------------------------------------------------------ run_game
\* variant of Winner that names a winner only when the other faction is gone
WinnerByElimination ==
    LET humans == Cardinality(get_alive_agents("Human"))
        zombies == Cardinality(get_alive_agents("Zombie"))
    IN IF humans > 0 /\ zombies = 0 THEN "HUMANS WIN"
       ELSE IF zombies > 0 /\ humans = 0 THEN "ZOMBIES WIN" ELSE "DRAW"

Winner ==
    LET humans == Cardinality(get_alive_agents("Human"))
        zombies == Cardinality(get_alive_agents("Zombie"))
    IN IF humans > zombies THEN "HUMANS WIN"
       ELSE IF zombies > humans THEN "ZOMBIES WIN" ELSE "DRAW"

\* variant of EndGame that does not wait for the loop of run_game to be left
EndGameEarly ==
    /\ pc = "loop"
    /\ session' = [session EXCEPT !.status = Winner]
    /\ pc' = "ended"
    /\ UNCHANGED <<agents, items, combat_log, round_num, game_state, task, results,
                   updated_agents, combat_buffer, item_pickups, pick_idx, defeated, faults,
                   rng, round_seed>>

\* the loop of run_game is left; end_game(game_id, winner)
EndGame ==
    /\ pc = "loop"
    /\ is_game_over \/ round_num >= MaxRounds
    /\ session' = [session EXCEPT !.status = Winner]
    /\ pc' = "ended"
    /\ UNCHANGED <<agents, items, combat_log, round_num, game_state, task, results,
                   updated_agents, combat_buffer, item_pickups, pick_idx, defeated, faults,
                   rng, round_seed>>

Next ==
    \/ BeginRound
    \/ \E a \in AgentIds : FinishTask(a)
    \/ \E a \in AgentIds : FailTask(a)
    \/ Collect
    \/ ApplyCombatResults
    \/ PickUpItem
    \/ SaveAgents
    \/ ReturnFromRound
    \/ EndGame

Spec == Init /\ [][Next]_vars

\* run_game runs on until it returns, and the pool runs every submitted task
SpecLive == Init /\ [][Next]_vars /\ WF_vars(Next)

\* ------------------------------------------------------------ the store fails
\* A call of the store raises.  get_cursor commits at the end of every call and rolls
\* back the failing call alone, so what earlier calls of the round wrote stays; the
\* exception leaves run_round and run_game, which catch nothing.

\* a read at the head of run_round raises: the counter is already incremented
FailFetch ==
    /\ pc = "loop"
    /\ ~is_game_over
    /\ round_num < MaxRounds
    /\ round_num' = round_num + 1
    /\ combat_buffer' = <<>>
    /\ item_pickups' = <<>>
    /\ pc' = "crashed"
    /\ UNCHANGED <<agents, items, combat_log, session, game_state, task, results,
                   updated_agents, pick_idx, defeated, faults, rng, round_seed>>

\* the k-th log_combat of apply_combat_results raises: the rows before it are committed
FailLogCombat ==
    /\ pc = "combat"
    /\ LET st == apply_combat_results(combat_buffer, updated_agents)
       IN \E k \in 1..Len(st.log) :
             combat_log' = combat_log \o SubSeq(st.log, 1, k - 1)
    /\ pc' = "crashed"
    /\ UNCHANGED <<agents, items, session, round_num, game_state, task, results,
                   updated_agents, combat_buffer, item_pickups, pick_idx, defeated, faults,
                   rng, round_seed>>

\* a pick_up_item of the pickup loop raises
FailPickUpItem ==
    /\ pc = "pickups"
    /\ pick_idx <= Len(item_pickups)
    /\ pc' = "crashed"
    /\ UNCHANGED <<agents, items, combat_log, session, round_num, game_state, task, results,
                   updated_agents, combat_buffer, item_pickups, pick_idx, defeated, faults,
                   rng, round_seed>>

\* batch_update_agents raises: its one transaction is rolled back
FailBatchUpdate ==
    /\ pc = "pickups"
    /\ pick_idx > Len(item_pickups)
    /\ pc' = "crashed"
    /\ UNCHANGED <<agents, items, combat_log, session, round_num, game_state, task, results,
                   updated_agents, combat_buffer, item_pickups, pick_idx, defeated, faults,
                   rng, round_seed>>

\* update_game_round raises: the agents are saved, the round number is not
FailUpdateRound ==
    /\ pc = "pickups"
    /\ pick_idx > Len(item_pickups)
    /\ agents' = batch_update_agents(agents, updated_agents)
    /\ pc' = "crashed"
    /\ UNCHANGED <<items, combat_log, session, round_num, game_state, task, results,
                   updated_agents, combat_buffer, item_pickups, pick_idx, defeated, faults,
                   rng, round_seed>>

NextDb ==
    \/ Next
    \/ FailFetch
    \/ FailLogCombat
    \/ FailPickUpItem
    \/ FailBatchUpdate
    \/ FailUpdateRound

SpecDb == Init /\ [][NextDb]_vars

\* ------------------------------------------------------------ GameDB, one thread
\* GameDB.run_round of zombie_game4.py: the turns run one after the other on the
\* dicts of the snapshot lists themselves.  The statements of its process_human_turn
\* and process_zombie_turn are those of the threaded engine with the dict in place of
\* the copy, attack in place of calculate_attack plus append, and db.pick_up_item in
\* place of the append to item_pickups.

\* the agent whose turn is next: the humans in list order, then the zombies
NextInTurn ==
    Submission[CHOOSE i \in DOMAIN Submission :
                  /\ task[Submission[i]] = "pending"
                  /\ \A j \in 1..(i - 1) : task[Submission[j]] # "pending"]

\* the part of GameDB.attack that changes the target's dict
GameDB_attack(row, combat) ==
    IF row.agent_id # combat.target_id THEN row
    ELSE LET h == row.health - combat.damage
         IN IF h <= 0 THEN [row EXCEPT !.health = 0, !.is_alive = FALSE]
            ELSE [row EXCEPT !.health = h]

\* the snapshot lists after the turn with outcome res of the agent with dict res.update
GameDB_lists(gs, res) ==
    LET Own(row) == IF row.agent_id = res.update.agent_id THEN res.update ELSE row
        Hit(row) == IF res.combat = <<>> \/ res.combat = <<NoneCombat>> THEN row
                    ELSE GameDB_attack(row, res.combat[1])
    IN [humans |-> [i \in DOMAIN gs.humans |-> Hit(Own(gs.humans[i]))],
        zombies |-> [i \in DOMAIN gs.zombies |-> Hit(Own(gs.zombies[i]))],
        items |-> gs.items]

\* the head of GameDB.run_round
GameDB_BeginRound ==
    /\ pc = "loop"
    /\ ~is_game_over
    /\ round_num < MaxRounds
    /\ round_num' = round_num + 1
    /\ \E humans \in Perms(get_alive_agents("Human")),
          zombies \in Perms(get_alive_agents("Zombie")),
          its \in Perms(get_available_items) :
          game_state' = [humans |-> humans, zombies |-> zombies, items |-> its]
    /\ task' = [a \in AgentIds |-> IF agents[a].is_alive THEN "pending" ELSE "none"]
    /\ round_seed' = rng
    /\ pc' = "turns"
    /\ UNCHANGED <<agents, items, combat_log, session, results, updated_agents,
                   combat_buffer, item_pickups, pick_idx, defeated, faults, rng>>

\* one iteration of 'for human in humans' or 'for zombie in zombies'
GameDB_Turn ==
    /\ pc = "turns"
    /\ \E a \in AgentIds : task[a] = "pending"
    /\ LET a == NextInTurn
           res == process_turn(a, DrawsFrom(rng))
       IN /\ game_state' = GameDB_lists(game_state, res)
          /\ combat_log' = IF res.combat = <<>> \/ res.combat = <<NoneCombat>>
                           THEN combat_log
                           ELSE Append(combat_log, log_combat(round_num, res.combat[1]))
          /\ items' = IF res.pickup = <<>> THEN items
                      ELSE [items EXCEPT ![res.pickup[1][1]] = pick_up_item(@, res.pickup[1][2])]
          /\ rng' = RngNextN(rng, res.ndraws)
          /\ task' = [task EXCEPT ![a] = "done"]
    /\ UNCHANGED <<agents, session, round_num, pc, results, updated_agents, combat_buffer,
                   item_pickups, pick_idx, defeated, faults, round_seed>>

\* the tail of GameDB.run_round: batch_update_agents of humans + zombies and
\* update_game_round
GameDB_Save ==
    /\ pc = "turns"
    /\ \A a \in AgentIds : task[a] # "pending"
    /\ agents' = batch_update_agents(agents, Range(game_state.humans) \cup Range(game_state.zombies))
    /\ session' = [session EXCEPT !.round_num = round_num]
    /\ game_state' = NoGameState
    /\ task' = NoTasks
    /\ pc' = "loop"
    /\ UNCHANGED <<items, combat_log, round_num, results, updated_agents, combat_buffer,
                   item_pickups, pick_idx, defeated, faults, rng, round_seed>>

\* GameDB.run_game: the same loop and the same end as the threaded run_game
NextGameDB ==
    \/ GameDB_BeginRound
    \/ GameDB_Turn
    \/ GameDB_Save
    \/ EndGame

SpecGameDB == Init /\ [][NextGameDB]_vars

\* ------------------------------------------------------------ the round in review
\* the rows the current round has logged, in log order
RoundLog ==
    LET ThisRound(e) == e.round_num = round_num
    IN SelectSeq(combat_log, ThisRound)

\* the entry of agent a in combat_buffer / item_pickups (each worker appends at most one)
CombatOf(a) ==
    LET ByA(c) == c.attacker_id = a
    IN SelectSeq(combat_buffer, ByA)

PickupOf(a) ==
    LET ByA(p) == p[2] = a
    IN SelectSeq(item_pickups, ByA)

\* the two buffers as they are when the workers complete in submission order
RECURSIVE CombatInOrder(_)
CombatInOrder(i) ==
    IF i > Len(Submission) THEN <<>> ELSE CombatOf(Submission[i]) \o CombatInOrder(i + 1)

RECURSIVE PickupsInOrder(_)
PickupsInOrder(i) ==
    IF i > Len(Submission) THEN <<>> ELSE PickupOf(Submission[i]) \o PickupsInOrder(i + 1)

\* the owner of item i after the pickup loop has run over picks
RECURSIVE OwnerAfter(_, _, _)
OwnerAfter(picks, i, owner) ==
    IF picks = <<>> THEN owner
    ELSE OwnerAfter(Tail(picks), i, IF Head(picks)[1] = i THEN Head(picks)[2] ELSE owner)

\* the round's tasks run one after the other in submission order, as a pool of one
\* thread runs them, from generator state st.rng
RECURSIVE SeqRun(_, _)
SeqRun(i, st) ==
    IF i > Len(Submission) THEN st
    ELSE LET res == process_turn(Submission[i], DrawsFrom(st.rng))
         IN SeqRun(i + 1, [rng |-> RngNextN(st.rng, res.ndraws),
                           results |-> st.results \cup {res.update},
                           combat |-> st.combat \o res.combat,
                           pickups |-> st.pickups \o res.pickup])

NoFault == \A a \in AgentIds : task[a] # "failed"

\* ------------------------------------------------------------ claims
\* C1: for a fixed snapshot and fixed worker results, the merge outcome (agent states,
\* the sequence of logged combat events, the owner of every item) is the same for
\* every order in which the workers completed: it is the outcome of the buffers
\* filled in submission order.
C1_MergeIndependentOfCompletionOrder ==
    pc = "merged" =>
        LET ref == apply_combat_results(CombatInOrder(1), results)
        IN /\ updated_agents = ref.dict
           /\ RoundLog = ref.log
           /\ \A i \in ItemIds :
                 items[i].picked_by_agent_id =
                     OwnerAfter(PickupsInOrder(1), i, items[i].picked_by_agent_id)

\* C2: with the generator in a fixed state at the start of the round and a fixed
\* snapshot, the merged state and the round's log are those of the run on one thread,
\* whatever the schedule of the workers (no worker having raised).
C2_RoundDeterministicForSeed ==
    (pc = "merged" /\ NoFault) =>
        LET run == SeqRun(1, [rng |-> round_seed, results |-> {}, combat |-> <<>>,
                              pickups |-> <<>>])
            ref == apply_combat_results(run.combat, run.results)
        IN /\ updated_agents = ref.dict
           /\ RoundLog = ref.log
           /\ \A i \in ItemIds :
                 items[i].picked_by_agent_id =
                     OwnerAfter(run.pickups, i, items[i].picked_by_agent_id)

\* the health of target t before the k-th logged event of the round was applied
RECURSIVE DamageBefore(_, _)
DamageBefore(t, k) ==
    IF k <= 1 THEN 0
    ELSE DamageBefore(t, k - 1)
         + (IF RoundLog[k - 1].target_id = t THEN RoundLog[k - 1].damage ELSE 0)

\* C3: an attack against a target that an earlier attack of the same round has
\* already brought to health 0 is discarded: it is not logged, and the target is
\* marked dead at most once.
C3_AttackOnDeadTargetDiscarded ==
    pc = "merged" =>
        /\ \A t \in AgentIds : defeated[t] <= 1
        /\ \A k \in DOMAIN RoundLog :
              \A r \in results :
                 r.agent_id = RoundLog[k].target_id =>
                     DamageBefore(r.agent_id, k) < r.health

\* C4: when two role-less humans pick up the same item in one round, exactly one of
\* them ends the round with a role and owns the item; the other has no role.
C4_OnePickupWins ==
    pc = "merged" =>
        \A p, q \in Range(item_pickups) :
            (p[1] = q[1] /\ p[2] # q[2]) =>
                /\ (agents[p[2]].role_name = NoRole) # (agents[q[2]].role_name = NoRole)
                /\ \A a \in {p[2], q[2]} :
                      agents[a].role_name # NoRole <=> items[p[1]].picked_by_agent_id = a

\* C5: the owner of an item is written only in a step in which picked_up goes from
\* false to true, hence at most once.
C5_OwnerWrittenOnce ==
    [][\A i \in ItemIds :
          items'[i].picked_by_agent_id # items[i].picked_by_agent_id =>
              (~items[i].picked_up /\ items'[i].picked_up)]_vars

\* the health agent a has after its own decision: the health of the copy its worker
\* returned, or its snapshot health when its worker returned nothing
OwnHealth(a) ==
    IF \E r \in results : r.agent_id = a
    THEN (CHOOSE r \in results : r.agent_id = a).health
    ELSE Submitted(a).health

\* the sum of the damages of the buffered attacks on agent t, misses left out
RECURSIVE DamageTo(_, _)
DamageTo(t, k) ==
    IF k = 0 THEN 0
    ELSE DamageTo(t, k - 1)
         + (IF combat_buffer[k].target_id = t THEN combat_buffer[k].damage ELSE 0)

\* C6: after the merge the stored health of every agent of the round is
\* max(0, h - S), h its health after its own decision and S the sum of the damages
\* of the attacks made against it in the round: no damage is dropped or doubled.
C6_DamageCumulative ==
    pc = "merged" =>
        \A a \in AgentIds :
            task[a] # "none" =>
                agents[a].health = Max(0, OwnHealth(a) - DamageTo(a, Len(combat_buffer)))

\* C7: in every state of the store every agent has 0 <= health <= max_health and
\* is alive exactly when its health is above 0.
C7_HealthInvariant ==
    \A a \in AgentIds :
        /\ 0 <= agents[a].health
        /\ agents[a].health <= agents[a].max_health
        /\ agents[a].is_alive <=> agents[a].health > 0

\* an agent took more damage than it had health, and the store has it dead at 0
C7_Witness ==
    /\ pc = "merged"
    /\ \E a \in AgentIds :
          /\ task[a] = "done"
          /\ OwnHealth(a) - DamageTo(a, Len(combat_buffer)) < 0
          /\ agents[a].health = 0
          /\ ~agents[a].is_alive

\* C8: at the start and after every round the position of every agent is on the
\* grid: 0 <= x < grid_size and 0 <= y < grid_size.
C8_PositionOnGrid ==
    \A a \in AgentIds :
        /\ 0 <= agents[a].x /\ agents[a].x < GridSize
        /\ 0 <= agents[a].y /\ agents[a].y < GridSize

\* a Speed Zombie took its two steps and the second one was cut at the border y = 0
C8_Witness ==
    /\ pc = "merged"
    /\ \E a \in AgentIds :
          /\ task[a] = "done"
          /\ Submitted(a).role_name = "Speed Zombie"
          /\ Submitted(a).y = 1
          /\ agents[a].y = 0
          /\ agents[a].x = Submitted(a).x - 2

C10_MergeAfterAllTasks ==
    pc \in {"combat", "pickups", "merged"} =>
        \A a \in AgentIds : task[a] # "pending"

\* the merge starts after one task has failed and another has completed
C10_Witness ==
    /\ pc = "combat"
    /\ \E a, b \in AgentIds : task[a] = "failed" /\ task[b] = "done"

\* C11: when the worker of an agent raises, the round still completes: the round
\* number is stored, every other task has run to its end and its result is saved, and
\* the failing agent has appended no attack and no pickup and keeps the position and
\* the role of the snapshot.
C11_WorkerFailureIsolated ==
    pc = "merged" =>
        /\ session.round_num = round_num
        /\ \A a \in AgentIds :
              task[a] = "failed" =>
                  /\ CombatOf(a) = <<>>
                  /\ PickupOf(a) = <<>>
                  /\ agents[a].x = Submitted(a).x
                  /\ agents[a].y = Submitted(a).y
                  /\ agents[a].role_name = Submitted(a).role_name
                  /\ agents[a].role_data = Submitted(a).role_data
        /\ \A b \in AgentIds :
              (task[b] # "none" /\ task[b] # "failed") =>
                  /\ task[b] = "done"
                  /\ \E u \in updated_agents :
                        /\ u.agent_id = b
                        /\ agents[b] = batch_update_row(Submitted(b), u)

\* a round is merged in which one worker raised and another agent moved
C11_Witness ==
    /\ pc = "merged"
    /\ \E a, b \in AgentIds :
          /\ task[a] = "failed"
          /\ task[b] = "done"
          /\ <<agents[b].x, agents[b].y>> # <<Submitted(b).x, Submitted(b).y>>

\* C12: when a call of the store fails during a round, nothing of the round stays in
\* the store: the agents and the items are those of the round's snapshot, the log has
\* no row of the round and the stored round number is the one before.
C12_RoundAllOrNothing ==
    pc = "crashed" =>
        /\ \A a \in AgentIds : task[a] # "none" => agents[a] = Submitted(a)
        /\ \A i \in Range(game_state.items) : items[i.item_id] = i
        /\ RoundLog = <<>>
        /\ session.round_num = round_num - 1

\* the ids of the agents listed in a snapshot
SnapshotIds(gs) == {r.agent_id : r \in Range(gs.humans) \cup Range(gs.zombies)}

\* C13: death is permanent: the stored row of a dead agent has health 0 and no step
\* changes it, and a round that starts lists no dead agent in its snapshot and submits
\* no task for it.
C13_DeathPermanent ==
    [][/\ \A a \in AgentIds :
             ~agents[a].is_alive => (agents[a].health = 0 /\ agents'[a] = agents[a])
       /\ (pc = "loop" /\ pc' = "workers") =>
             \A a \in AgentIds :
                ~agents[a].is_alive => (task'[a] = "none" /\ a \notin SnapshotIds(game_state'))]_vars

\* the second round has been merged with an agent that died in the first
C13_Witness ==
    /\ pc = "merged"
    /\ round_num = 2
    /\ \E a, b \in AgentIds :
          /\ ~agents[a].is_alive
          /\ task[a] = "none"
          /\ task[b] = "done"

\* the ids of the items listed in a snapshot
SnapshotItemIds(gs) == {i.item_id : i \in Range(gs.items)}

\* C14: no step takes picked_up from true to false, a round that starts lists no
\* picked-up item in its snapshot, and the workers emit pickups for items of the
\* snapshot only.
C14_PickedUpPermanent ==
    [][/\ \A i \in ItemIds : items[i].picked_up => items'[i].picked_up
       /\ (pc = "loop" /\ pc' = "workers") =>
             \A i \in ItemIds : items[i].picked_up => i \notin SnapshotItemIds(game_state')
       /\ pc = "workers" =>
             \A k \in DOMAIN item_pickups' :
                item_pickups'[k][1] \in SnapshotItemIds(game_state)]_vars

\* in the second round a role-less human stands in reach of an item that another
\* human picked up in the first round, and emits no pickup
C14_Witness ==
    /\ pc = "merged"
    /\ round_num = 2
    /\ \E h \in AgentIds, i \in ItemIds :
          /\ task[h] = "done"
          /\ Submitted(h).agent_type = "Human"
          /\ Submitted(h).role_name = NoRole
          /\ items[i].picked_up
          /\ i \notin SnapshotItemIds(game_state)
          /\ InRange(Dist2(Submitted(h).x, Submitted(h).y, items[i].x, items[i].y))
          /\ PickupOf(h) = <<>>

\* C15: a stored role never changes once it is set, of its role_data only the
\* Doctor's heal_charges changes, and a human that has a role in the snapshot emits no
\* pickup.
C15_RoleAssignedOnce ==
    [][/\ \A a \in AgentIds :
             agents[a].role_name # NoRole =>
                 /\ agents'[a].role_name = agents[a].role_name
                 /\ DOMAIN agents'[a].role_data = DOMAIN agents[a].role_data
                 /\ \A k \in DOMAIN agents[a].role_data :
                       agents'[a].role_data[k] # agents[a].role_data[k] =>
                           (k = "heal_charges" /\ agents[a].role_name = "Doctor")
       /\ pc = "workers" =>
             \A k \in DOMAIN item_pickups' :
                Submitted(item_pickups'[k][2]).role_name = NoRole]_vars

\* in the second round a human that has a role stands in reach of an item of the
\* snapshot and emits no pickup
C15_Witness ==
    /\ pc = "merged"
    /\ round_num = 2
    /\ \E h \in AgentIds :
          /\ task[h] = "done"
          /\ Submitted(h).agent_type = "Human"
          /\ Submitted(h).role_name # NoRole
          /\ \E i \in Range(game_state.items) :
                InRange(Dist2(Submitted(h).x, Submitted(h).y, i.x, i.y))
          /\ PickupOf(h) = <<>>

\* C16: the loop of run_game ends after at most max_rounds rounds: round_num never
\* exceeds max_rounds, a round starts only while both factions live and
\* round_num < max_rounds, the loop is left as soon as this fails, and it is left
\* in the end.
C16_LoopTerminates ==
    /\ [](round_num <= MaxRounds)
    /\ [][pc = "loop" =>
             IF is_game_over \/ round_num >= MaxRounds
             THEN pc' = "ended"
             ELSE pc' = "workers" /\ round_num' = round_num + 1]_vars
    /\ <>(pc = "ended")

\* the loop was left at round max_rounds with both factions alive
C16_Witness ==
    /\ pc = "ended"
    /\ round_num = MaxRounds
    /\ ~is_game_over

\* a faction has no living agent in the store
FactionGone ==
    \E t \in {"Human", "Zombie"} :
        \A a \in AgentIds : agents[a].agent_type = t => ~agents[a].is_alive

\* C17: a round starts only when both factions have a living agent, its snapshot then
\* lists one of each; once a faction is gone is_game_over is true, no round starts and
\* no step changes the stored agents, the items or the log.
C17_NoRoundAfterGameOver ==
    [][/\ (pc = "loop" /\ pc' = "workers") =>
             /\ ~FactionGone
             /\ game_state'.humans # <<>>
             /\ game_state'.zombies # <<>>
       /\ FactionGone =>
             /\ is_game_over
             /\ pc' # "workers"
             /\ UNCHANGED <<agents, items, combat_log>>]_vars

\* the game ended before max_rounds because a faction was gone
C17_Witness ==
    /\ pc = "ended"
    /\ FactionGone
    /\ round_num < MaxRounds

\* the number of living agents of a faction in the store
AliveCount(t) ==
    Cardinality({a \in AgentIds : agents[a].agent_type = t /\ agents[a].is_alive})

\* C18: the status end_game stores is decided by the alive counts alone: HUMANS WIN
\* iff more humans than zombies live, ZOMBIES WIN iff more zombies than humans, DRAW
\* iff the counts are equal.
C18_WinnerByAliveCounts ==
    pc = "ended" =>
        /\ session.status = "HUMANS WIN" <=> AliveCount("Human") > AliveCount("Zombie")
        /\ session.status = "ZOMBIES WIN" <=> AliveCount("Zombie") > AliveCount("Human")
        /\ session.status = "DRAW" <=> AliveCount("Human") = AliveCount("Zombie")

\* max_rounds was reached with both factions alive and the larger one won
C18_Witness ==
    /\ pc = "ended"
    /\ round_num = MaxRounds
    /\ AliveCount("Human") > 0
    /\ AliveCount("Zombie") > AliveCount("Human")
    /\ session.status = "ZOMBIES WIN"

\* C19: the status of the session leaves "active" exactly once: it is "active" until
\* end_game, end_game runs only at the loop head once the loop condition fails,
\* nothing runs after it, and it does run.
C19_EndGameOnce ==
    /\ [](pc # "ended" => session.status = "active")
    /\ [][session'.status # session.status =>
             /\ session.status = "active"
             /\ pc = "loop" /\ pc' = "ended"
             /\ is_game_over \/ round_num >= MaxRounds]_vars
    /\ [][pc # "ended"]_vars
    /\ <>(session.status # "active")

\* the game has ended with a winner after rounds with combat
C19_Witness ==
    /\ pc = "ended"
    /\ session.status = "HUMANS WIN"
    /\ session.round_num >= 1
    /\ combat_log # <<>>

\* the items of the snapshot at the least distance from the snapshot row r
NearestItems(r) ==
    {i \in Range(game_state.items) :
        \A j \in Range(game_state.items) :
            Dist2(r.x, r.y, i.x, i.y) <= Dist2(r.x, r.y, j.x, j.y)}

RoleOfItem(kind) == IF kind = "MedKit" THEN "Doctor" ELSE "Hunter"

\* C20: a role-less human of the snapshot whose nearest item is within distance 1.5
\* emits a pickup of a nearest item and, when no other human picks that item in the
\* round, is stored after the round as Doctor for a MedKit and as Hunter for a Sword,
\* the item being picked up and owned by that human.
C20_PickupGivesRole ==
    pc = "merged" =>
        \A h \in AgentIds :
            (/\ task[h] = "done"
             /\ Submitted(h).agent_type = "Human"
             /\ Submitted(h).role_name = NoRole
             /\ \E i \in NearestItems(Submitted(h)) :
                   Dist2(Submitted(h).x, Submitted(h).y, i.x, i.y) <= 2)
            => \E i \in NearestItems(Submitted(h)) :
                  /\ PickupOf(h) = <<<<i.item_id, h>>>>
                  /\ (\A k \in DOMAIN item_pickups :
                         item_pickups[k][1] = i.item_id => item_pickups[k][2] = h)
                     => /\ agents[h].role_name = RoleOfItem(i.item_type)
                        /\ items[i.item_id].picked_up
                        /\ items[i.item_id].picked_by_agent_id = h

\* a role-less human in reach of the Sword is stored as Hunter and owns the Sword
C20_Witness ==
    /\ pc = "merged"
    /\ \E h \in AgentIds, i \in ItemIds :
          /\ task[h] = "done"
          /\ Submitted(h).role_name = NoRole
          /\ agents[h].role_name = "Hunter"
          /\ items[i].item_type = "Sword"
          /\ items[i].picked_up
          /\ items[i].picked_by_agent_id = h

\* the rounds' phases in which game_state holds the snapshot of the round
InRound == pc \in {"workers", "combat", "pickups", "merged"}

\* the role multipliers, in tenths, an attack of an agent with the role can have
RoleMultipliers(role) ==
    IF role = "Hunter" THEN {20, 30}
    ELSE IF role = "Speed Zombie" THEN {6}
    ELSE IF role = "Tank Zombie" THEN {25}
    ELSE {10}

\* C21: the base damage of every attack lies in [floor(0.7 x attack_power),
\* attack_power] for a Human and in [floor(0.5 x attack_power), attack_power] for a
\* Zombie: every buffered damage is floor(base x m) for such a base and a multiplier
\* m of the attacker's role, and is never negative.
C21_BaseDamageRange ==
    InRound =>
        \A k \in DOMAIN combat_buffer :
            combat_buffer[k] # NoneCombat =>
                LET c == combat_buffer[k]
                    a == Submitted(c.attacker_id)
                    lo == IF a.agent_type = "Human"
                          THEN (a.attack_power * 7) \div 10
                          ELSE (a.attack_power * 5) \div 10
                IN /\ c.damage >= 0
                   /\ \E base \in lo..a.attack_power, m \in RoleMultipliers(a.role_name) :
                         c.damage = (base * m) \div 10

\* the attacks of combat_buffer that did not miss, in buffer order
Hits ==
    LET NotMiss(c) == c # NoneCombat
    IN SelectSeq(combat_buffer, NotMiss)

\* the health of agent t after the first k logged events of the round, each event
\* taking its damage from its target's health, not below 0
RECURSIVE HealthAfterLog(_, _)
HealthAfterLog(t, k) ==
    IF k = 0 THEN OwnHealth(t)
    ELSE LET prev == HealthAfterLog(t, k - 1)
         IN IF RoundLog[k].target_id = t THEN Max(0, prev - RoundLog[k].damage) ELSE prev

\* C22: the logged events of a round and the applied damage correspond one to one:
\* the round's log rows are the non-miss attacks of the round, one row each with the
\* attack's damage, and the stored health of every agent of the round is its health
\* decremented by the damage of each row that targets it, not below 0.
C22_LogMatchesDamage ==
    pc = "merged" =>
        /\ Len(RoundLog) = Len(Hits)
        /\ \A k \in DOMAIN RoundLog : RoundLog[k] = log_combat(round_num, Hits[k])
        /\ \A t \in AgentIds :
              task[t] # "none" => agents[t].health = HealthAfterLog(t, Len(RoundLog))

\* the snapshot rows of the faction opposed to the snapshot row r
Opponents(r) ==
    IF r.agent_type = "Human" THEN Range(game_state.zombies) ELSE Range(game_state.humans)

\* agent a, whose task ran to its end, had an opponent within distance 1.5 and did
\* not pick up an item: its turn was an attack
TurnWasAttack(a) ==
    /\ task[a] = "done"
    /\ PickupOf(a) = <<>>
    /\ \E o \in Opponents(Submitted(a)) :
          Dist2(Submitted(a).x, Submitted(a).y, o.x, o.y) <= 2

\* the rows of the round's log with attacker a
LoggedBy(a) ==
    LET ByA(e) == e.attacker_id = a
    IN SelectSeq(RoundLog, ByA)

\* C23: only a Zombie misses: the attack of a Human in range has one buffered result
\* with damage >= 0 and one log row; every miss in the buffer is the attack of a
\* Zombie, leaves no log row and takes no health from any agent.
C23_OnlyZombiesMiss ==
    pc = "merged" =>
        /\ \A a \in AgentIds :
              TurnWasAttack(a) =>
                  IF Submitted(a).agent_type = "Human"
                  THEN /\ Len(CombatOf(a)) = 1
                       /\ CombatOf(a)[1].damage >= 0
                       /\ Len(LoggedBy(a)) = 1
                  ELSE CombatOf(a) = <<>> => LoggedBy(a) = <<>>
        /\ Len(combat_buffer) - Len(Hits) =
              Cardinality({a \in AgentIds : /\ TurnWasAttack(a)
                                            /\ Submitted(a).agent_type = "Zombie"
                                            /\ CombatOf(a) = <<>>})
        /\ Len(RoundLog) = Len(Hits)
        /\ \A t \in AgentIds :
              task[t] = "done" =>
                  agents[t].health = Max(0, OwnHealth(t) - DamageTo(t, Len(combat_buffer)))

\* a Zombie in range of a human missed: the buffer holds the miss and the log no row
C23_Witness ==
    /\ pc = "merged"
    /\ \E k \in DOMAIN combat_buffer : combat_buffer[k] = NoneCombat
    /\ \E z \in AgentIds :
          /\ TurnWasAttack(z)
          /\ Submitted(z).agent_type = "Zombie"
          /\ CombatOf(z) = <<>>
          /\ LoggedBy(z) = <<>>

\* the calls of the store run_round has made so far in the round: the three reads of
\* the snapshot, one log_combat per logged row, one pick_up_item per pickup handled,
\* and batch_update_agents and update_game_round once the agents are saved
GatewayReads == 3

GatewayCalls ==
    GatewayReads + Len(RoundLog) + (pick_idx - 1) + (IF pc = "merged" THEN 2 ELSE 0)

\* C24: in a round the engine calls the store exactly twice, one batched read and one
\* batched write, and makes no call per combat event or per item.
C24_TwoGatewayCalls ==
    pc = "merged" =>
        /\ GatewayCalls = 2
        /\ Len(RoundLog) + (pick_idx - 1) = 0

\* the opponents of the snapshot at the least distance from the snapshot row r
NearestOpponents(r) ==
    {o \in Opponents(r) :
        \A q \in Opponents(r) : Dist2(r.x, r.y, o.x, o.y) <= Dist2(r.x, r.y, q.x, q.y)}

\* C25: an agent that has an opponent in the snapshot and picks up no item either
\* attacks or moves: when its nearest opponent is within distance 1.5 it keeps its
\* position and its buffered attack, if any, is on a nearest opponent; otherwise it
\* buffers no attack and moves (a Tank Zombie may stay).  No buffered attack is on an
\* agent of the attacker's faction.
C25_AttackOrMove ==
    pc = "merged" =>
        /\ \A a \in AgentIds :
              (task[a] = "done" /\ PickupOf(a) = <<>> /\ Opponents(Submitted(a)) # {}) =>
                  LET r == Submitted(a)
                      here == agents[a].x = r.x /\ agents[a].y = r.y
                  IN IF \E o \in Opponents(r) : Dist2(r.x, r.y, o.x, o.y) <= 2
                     THEN /\ here
                          /\ r.agent_type = "Human" => Len(CombatOf(a)) = 1
                          /\ \A k \in DOMAIN CombatOf(a) :
                                \E o \in NearestOpponents(r) : CombatOf(a)[k].target_id = o.agent_id
                     ELSE /\ CombatOf(a) = <<>>
                          /\ here => r.role_name = "Tank Zombie"
        /\ \A k \in DOMAIN Hits :
              Submitted(Hits[k].attacker_id).agent_type # Submitted(Hits[k].target_id).agent_type

\* in one round one agent attacked from its place and another moved without attacking
C25_Witness ==
    /\ pc = "merged"
    /\ \E a, b \in AgentIds :
          /\ TurnWasAttack(a)
          /\ CombatOf(a) # <<>>
          /\ task[b] = "done"
          /\ PickupOf(b) = <<>>
          /\ CombatOf(b) = <<>>
          /\ <<agents[b].x, agents[b].y>> # <<Submitted(b).x, Submitted(b).y>>

\* C26: a role-less human with an item of the snapshot within distance 1.5 emits one
\* pickup, for a nearest item, and in that round neither attacks nor moves, even
\* with a zombie within distance 1.5.
C26_PickupBeforeCombat ==
    pc = "merged" =>
        \A h \in AgentIds :
            (/\ task[h] = "done"
             /\ Submitted(h).agent_type = "Human"
             /\ Submitted(h).role_name = NoRole
             /\ \E i \in Range(game_state.items) :
                   Dist2(Submitted(h).x, Submitted(h).y, i.x, i.y) <= 2)
            => /\ Len(PickupOf(h)) = 1
               /\ \E i \in NearestItems(Submitted(h)) : PickupOf(h)[1][1] = i.item_id
               /\ CombatOf(h) = <<>>
               /\ LoggedBy(h) = <<>>
               /\ agents[h].x = Submitted(h).x
               /\ agents[h].y = Submitted(h).y

\* a role-less human picked up an item while a zombie stood within distance 1.5
C26_Witness ==
    /\ pc = "merged"
    /\ \E h \in AgentIds :
          /\ task[h] = "done"
          /\ Submitted(h).agent_type = "Human"
          /\ Len(PickupOf(h)) = 1
          /\ CombatOf(h) = <<>>
          /\ \E z \in Opponents(Submitted(h)) :
                Dist2(Submitted(h).x, Submitted(h).y, z.x, z.y) <= 2

\* C27: when several living opponents stand at the same minimal distance from an
\* agent, the agent targets the one with the lowest agent id, whatever the order of
\* the snapshot.
C27_TieLowestId ==
    pc = "merged" =>
        \A a \in AgentIds :
            task[a] = "done" =>
                \A k \in DOMAIN CombatOf(a) :
                    \A o \in NearestOpponents(Submitted(a)) :
                        CombatOf(a)[k].target_id <= o.agent_id

\* n unit steps of a mover u toward a target t, the direction taken anew at every
\* step: one cell on each axis not yet aligned, none on an aligned axis, clamped
RECURSIVE MoveToward(_, _, _)
MoveToward(u, t, n) ==
    IF n = 0 THEN u
    ELSE MoveToward(StepToward(u, Sign(t.x, u.x), Sign(t.y, u.y)), t, n - 1)

\* the numbers of steps a Move of an agent with the role may have
MovementBudgets(role) ==
    IF role = "Speed Zombie" THEN {2}
    ELSE IF role = "Tank Zombie" THEN {0, 1}
    ELSE {1}

\* agent a, whose task ran to its end, had opponents, all of them further away than
\* 1.5, and did not pick up an item: its turn was a Move
TurnWasMove(a) ==
    /\ task[a] = "done"
    /\ PickupOf(a) = <<>>
    /\ Opponents(Submitted(a)) # {}
    /\ \A o \in Opponents(Submitted(a)) :
          Dist2(Submitted(a).x, Submitted(a).y, o.x, o.y) > 2

\* C28: a Move is 1 step for a human or a role-less zombie, 2 steps for a Speed
\* Zombie and 0 or 1 step for a Tank Zombie, each step one cell toward the target on
\* every axis not yet aligned and none on an aligned axis, clamped to the grid; the
\* mover never steps past its target's coordinate on any axis.
C28_MoveBudgetSteps ==
    pc = "merged" =>
        \A a \in AgentIds :
            TurnWasMove(a) =>
                \E t \in NearestOpponents(Submitted(a)) :
                    \E n \in MovementBudgets(Submitted(a).role_name) :
                        /\ agents[a].x = MoveToward(Submitted(a), t, n).x
                        /\ agents[a].y = MoveToward(Submitted(a), t, n).y

\* C29: the damage of every combat event is floor(base x m) for a base the attacker
\* can draw and the multiplier m of the attacker's role: 2.0 or 3.0 for a Hunter, 0.6
\* for a Speed Zombie, 2.5 for a Tank Zombie, 1.0 otherwise; was_critical is true
\* exactly when the attacker is a Hunter and m is 3.0.
C29_DamageIsBaseTimesMultiplier ==
    InRound =>
        \A k \in DOMAIN Hits :
            LET c == Hits[k]
                a == Submitted(c.attacker_id)
            IN \E base \in ((a.attack_power * 5) \div 10)..a.attack_power,
                  m \in RoleMultipliers(a.role_name) :
                  /\ c.damage = (base * m) \div 10
                  /\ c.was_critical <=> (a.role_name = "Hunter" /\ m = 30)

\* a Hunter's critical hit and the hit of a zombie with a role are in the buffer
C29_Witness ==
    /\ pc = "merged"
    /\ \E k \in DOMAIN Hits :
          Submitted(Hits[k].attacker_id).role_name = "Hunter" /\ Hits[k].was_critical
    /\ \E k \in DOMAIN Hits :
          Submitted(Hits[k].attacker_id).role_name \in {"Tank Zombie", "Speed Zombie"}

\* the heal charges a Doctor's role data stands for
HealCharges(r) == Get(r.role_data, "heal_charges", 3)

\* the Doctor of the snapshot row s is to heal at the start of its turn
HealDue(s) == s.health * 10 < s.max_health * 6 /\ HealCharges(s) > 0

C31_RoundCounter ==
    [][/\ round_num' \in {round_num, round_num + 1}
       /\ pc' = "loop" => session'.round_num = round_num'
       /\ round_num' # round_num =>
             /\ pc = "loop"
             /\ session.round_num = round_num
             /\ round_num > 0 => Len(RoundLog) = Len(Hits)]_vars

\* the second round has been completed and stored
C31_Witness ==
    /\ pc = "loop"
    /\ round_num = 2
    /\ session.round_num = 2
    /\ RoundLog # <<>>

\* sequence s is an initial part of sequence t
IsPrefix(s, t) == Len(s) <= Len(t) /\ SubSeq(t, 1, Len(s)) = s

\* C32: in the parallel phase each worker appends at most one entry to the two
\* buffers per round, a combat result or a pickup and never both; one append is one
\* step of one worker; entries are never removed or changed; nothing is derived from
\* the buffers before all workers of the round have finished; both buffers are empty
\* when a round starts.
C32_BuffersAppendOnly ==
    [][LET grown == (Len(combat_buffer') + Len(item_pickups'))
                    - (Len(combat_buffer) + Len(item_pickups))
       IN /\ round_num' # round_num => combat_buffer' = <<>> /\ item_pickups' = <<>>
          /\ round_num' = round_num =>
                /\ IsPrefix(combat_buffer, combat_buffer')
                /\ IsPrefix(item_pickups, item_pickups')
                /\ grown \in {0, 1}
                /\ grown = 1 =>
                      /\ pc = "workers"
                      /\ \E a \in AgentIds :
                            /\ task[a] = "pending" /\ task'[a] = "done"
                            /\ \A b \in AgentIds \ {a} : task'[b] = task[b]
          /\ (\E a \in AgentIds : task[a] = "pending") =>
                UNCHANGED <<agents, items, combat_log>>
          /\ InRound =>
                /\ \A a \in AgentIds : Len(CombatOf(a)) + Len(PickupOf(a)) <= 1
                /\ Len(combat_buffer) + Len(item_pickups)
                      <= Cardinality({a \in AgentIds : task[a] = "done"})]_vars

\* both buffers hold an entry while a worker of the round is still to finish
C32_Witness ==
    /\ pc = "workers"
    /\ combat_buffer # <<>>
    /\ item_pickups # <<>>
    /\ \E a \in AgentIds : task[a] = "pending"

\* the agent that takes its turn in a step of the one-thread engine
TurnOf(a) == pc = "turns" /\ task[a] = "pending" /\ task'[a] = "done"

\* C33: in the sequential engine an agent whose health reached 0 earlier in the round
\* takes no action later in that round, it neither attacks nor moves, and an agent
\* acting later in the round never selects it as the target of an attack.
C33_DeadTakeNoTurn ==
    [][\A a \in AgentIds :
          TurnOf(a) =>
              /\ ~Submitted(a).is_alive =>
                    /\ combat_log' = combat_log
                    /\ game_state' = game_state
              /\ Len(combat_log') > Len(combat_log) =>
                    Submitted(combat_log'[Len(combat_log')].target_id).is_alive]_vars

\* C34: once a human is a Hunter its attack_power is floor(1.5 x base_attack_power)
\* in the state saved for the round and in the snapshot of every later round.
C34_HunterBoostSaved ==
    /\ \A a \in AgentIds :
          agents[a].role_name = "Hunter" =>
              agents[a].attack_power = (agents[a].base_attack_power * 15) \div 10
    /\ \A h \in Range(game_state.humans) :
          h.role_name = "Hunter" => h.attack_power = (h.base_attack_power * 15) \div 10

\* C35: in the threaded engine an attack decided from the snapshot is applied whether
\* or not its attacker is still alive at merge time: every agent whose task ran to
\* its end loses the damage of all hits against it, those of attackers killed in the
\* same round included, and every hit is logged; a game in which the last human and
\* the last zombie kill each other ends with no living agent and the result DRAW.
C35_AttackOfKilledAttackerApplied ==
    /\ pc = "merged" =>
          /\ \A t \in AgentIds :
                task[t] = "done" =>
                    /\ agents[t].health = Max(0, OwnHealth(t) - DamageTo(t, Len(combat_buffer)))
                    /\ agents[t].is_alive <=> agents[t].health > 0
          /\ Len(RoundLog) = Len(Hits)
    /\ (pc = "ended" /\ \A a \in AgentIds : ~agents[a].is_alive) => session.status = "DRAW"

\* a human and a zombie have killed each other in the last round and the game has
\* ended as a DRAW with nobody alive
C35_Witness ==
    /\ pc = "ended"
    /\ session.status = "DRAW"
    /\ \A a \in AgentIds : ~agents[a].is_alive
    /\ \E j, k \in DOMAIN Hits :
          /\ Hits[j].attacker_id = Hits[k].target_id
          /\ Hits[k].attacker_id = Hits[j].target_id

\* the opponent the turn of the snapshot row r chose: the nearest in its list
ChosenTarget(r) ==
    find_nearest(r, IF r.agent_type = "Human" THEN game_state.zombies ELSE game_state.humans)

\* C36: every Move that takes at least one step brings the mover strictly nearer to
\* the target it chose in the snapshot, for every movement budget, the two steps of a
\* Speed Zombie in one direction included, and at every border of the grid.
C36_MoveApproachesTarget ==
    pc = "merged" =>
        \A a \in AgentIds :
            (TurnWasMove(a) /\ <<agents[a].x, agents[a].y>> # <<Submitted(a).x, Submitted(a).y>>) =>
                LET t == ChosenTarget(Submitted(a))
                IN Dist2(agents[a].x, agents[a].y, t.x, t.y)
                       < Dist2(Submitted(a).x, Submitted(a).y, t.x, t.y)

\* a Speed Zombie has moved two steps in one direction and past its target's row or
\* column
C36_Witness ==
    /\ pc = "merged"
    /\ \E a \in AgentIds :
          /\ TurnWasMove(a)
          /\ Submitted(a).role_name = "Speed Zombie"
          /\ LET t == ChosenTarget(Submitted(a))
                 m == MoveToward(Submitted(a), t, 2)
             IN <<agents[a].x, agents[a].y>> # <<m.x, m.y>>

\* C37: a worker failure does not make its agent immune: when the worker of agent A
\* fails, the damage of every hit other agents made against A in that round is still
\* taken from A's health at merge, and A dies if that damage reaches its health.
C37_FailedWorkerStillDamaged ==
    pc = "merged" =>
        \A a \in AgentIds :
            task[a] = "failed" =>
                /\ agents[a].health
                      = Max(0, Submitted(a).health - DamageTo(a, Len(combat_buffer)))
                /\ agents[a].is_alive <=> agents[a].health > 0

====
